---- MODULE Spec2Model ----
(***************************************************************************)
(* CopyList (src/CopyList.py): a two-column table persisted to             *)
(* copylist.csv, with up/down row moves and copy-on-select.                *)
(*                                                                         *)
(* Texts are sequences of Unicode code points, files are sequences of      *)
(* bytes.  Rows are sequences of texts (a table row always has two).       *)
(* Row indices are 0-based as in the source; table[i + 1] is row i.        *)
(***************************************************************************)
EXTENDS Integers, Sequences, FiniteSets, TLC

(***************************************************************************)
(* Characters                                                              *)
(***************************************************************************)
LF == 10
CR == 13
SP == 32
QUOTE == 34
COMMA == 44
CH_a == 97
CH_x == 120
E_ACUTE == 233
HW_SMALL_U == 65385
HW_TE == 65411
REPLACEMENT == 65533

\* str.strip() with no argument removes Unicode whitespace
WhitespaceChars ==
    {9, 10, 11, 12, 13, 28, 29, 30, 31, 32, 133, 160, 5760, 8232, 8233,
     8239, 8287, 12288} \cup (8192 .. 8202)

RECURSIVE lstrip(_)
lstrip(s) ==
    IF s = <<>> THEN s
    ELSE IF Head(s) \in WhitespaceChars THEN lstrip(Tail(s)) ELSE s

RECURSIVE rstrip(_)
rstrip(s) ==
    IF s = <<>> THEN s
    ELSE IF s[Len(s)] \in WhitespaceChars
         THEN rstrip(SubSeq(s, 1, Len(s) - 1)) ELSE s

strip(s) == rstrip(lstrip(s))

\* _row_is_empty_values(values): values is a list of any length
row_is_empty_values(values) ==
    IF values = <<>> THEN TRUE
    ELSE LET v1 == strip(IF Len(values) > 0 THEN values[1] ELSE <<>>)
             v2 == strip(IF Len(values) > 1 THEN values[2] ELSE <<>>)
         IN  v1 = <<>> /\ v2 = <<>>

\* while rows and self._row_is_empty_values(rows[-1]): rows.pop()
RECURSIVE pop_trailing_empty(_)
pop_trailing_empty(rows) ==
    IF rows # <<>> /\ row_is_empty_values(rows[Len(rows)])
    THEN pop_trailing_empty(SubSeq(rows, 1, Len(rows) - 1))
    ELSE rows

(***************************************************************************)
(* csv.writer(f).writerows(rows), excel dialect: delimiter ',', quotechar  *)
(* '"', doublequote, QUOTE_MINIMAL, lineterminator '\r\n'.                 *)
(***************************************************************************)
RECURSIVE csv_escape(_)
csv_escape(s) ==
    IF s = <<>> THEN <<>>
    ELSE IF Head(s) = QUOTE THEN <<QUOTE, QUOTE>> \o csv_escape(Tail(s))
         ELSE <<Head(s)>> \o csv_escape(Tail(s))

csv_needs_quotes(s) ==
    \E i \in 1 .. Len(s) : s[i] \in {COMMA, QUOTE, CR, LF}

csv_field(s) ==
    IF csv_needs_quotes(s) THEN <<QUOTE>> \o csv_escape(s) \o <<QUOTE>>
    ELSE s

RECURSIVE csv_join(_)
csv_join(fields) ==
    IF fields = <<>> THEN <<>>
    ELSE IF Len(fields) = 1 THEN csv_field(fields[1])
         ELSE csv_field(fields[1]) \o <<COMMA>> \o csv_join(Tail(fields))

csv_writerow(fields) ==
    IF Len(fields) = 1 /\ fields[1] = <<>> THEN <<QUOTE, QUOTE, CR, LF>>
    ELSE csv_join(fields) \o <<CR, LF>>

RECURSIVE csv_writerows(_)
csv_writerows(rows) ==
    IF rows = <<>> THEN <<>>
    ELSE csv_writerow(Head(rows)) \o csv_writerows(Tail(rows))

(***************************************************************************)
(* csv.reader(f) over a text file opened with newline="": the file yields  *)
(* lines ending at '\n', '\r' or '\r\n' (kept), the reader feeds each      *)
(* character and then an end-of-line mark to its state machine.            *)
(***************************************************************************)
EOL == 0 - 2

reader_reset(recs) ==
    [state |-> "START_RECORD", field |-> <<>>, fields |-> <<>>, recs |-> recs]

save_field(p) == [p EXCEPT !.fields = Append(p.fields, p.field), !.field = <<>>]

after_newline(c) == IF c = EOL THEN "START_RECORD" ELSE "EAT_CRNL"

add_char(p, c) == [p EXCEPT !.field = Append(p.field, c)]

start_field(p, c) ==
    IF c \in {LF, CR, EOL} THEN [save_field(p) EXCEPT !.state = after_newline(c)]
    ELSE IF c = QUOTE THEN [p EXCEPT !.state = "IN_QUOTED_FIELD"]
    ELSE IF c = COMMA THEN [save_field(p) EXCEPT !.state = "START_FIELD"]
    ELSE [add_char(p, c) EXCEPT !.state = "IN_FIELD"]

parse_process_char(p, c) ==
    CASE p.state = "START_RECORD" ->
            IF c = EOL THEN p
            ELSE IF c \in {LF, CR} THEN [p EXCEPT !.state = "EAT_CRNL"]
            ELSE start_field(p, c)
      [] p.state = "START_FIELD" -> start_field(p, c)
      [] p.state = "IN_FIELD" ->
            IF c \in {LF, CR, EOL}
            THEN [save_field(p) EXCEPT !.state = after_newline(c)]
            ELSE IF c = COMMA THEN [save_field(p) EXCEPT !.state = "START_FIELD"]
            ELSE add_char(p, c)
      [] p.state = "IN_QUOTED_FIELD" ->
            IF c = EOL THEN p
            ELSE IF c = QUOTE THEN [p EXCEPT !.state = "QUOTE_IN_QUOTED_FIELD"]
            ELSE add_char(p, c)
      [] p.state = "QUOTE_IN_QUOTED_FIELD" ->
            IF c = QUOTE THEN [add_char(p, c) EXCEPT !.state = "IN_QUOTED_FIELD"]
            ELSE IF c = COMMA THEN [save_field(p) EXCEPT !.state = "START_FIELD"]
            ELSE IF c \in {LF, CR, EOL}
                 THEN [save_field(p) EXCEPT !.state = after_newline(c)]
            ELSE [add_char(p, c) EXCEPT !.state = "IN_FIELD"]
      [] p.state = "EAT_CRNL" ->
            IF c = EOL THEN [p EXCEPT !.state = "START_RECORD"] ELSE p

\* after the end-of-line mark: a record is complete when the state is
\* START_RECORD again, otherwise the next line continues it
end_of_line(p) ==
    LET q == parse_process_char(p, EOL)
    IN  IF q.state = "START_RECORD" THEN reader_reset(Append(q.recs, q.fields))
        ELSE q

RECURSIVE reader_run(_, _, _)
reader_run(p, s, inLine) ==
    IF s = <<>> THEN
        LET q == IF inLine THEN end_of_line(p) ELSE p
        IN  IF q.field # <<>> \/ q.state = "IN_QUOTED_FIELD"
            THEN Append(q.recs, save_field(q).fields)
            ELSE q.recs
    ELSE
        LET c == Head(s)
            q == parse_process_char(p, c)
            lineEnds == c = LF \/ (c = CR /\ (Len(s) = 1 \/ s[2] # LF))
        IN  IF lineEnds THEN reader_run(end_of_line(q), Tail(s), FALSE)
            ELSE reader_run(q, Tail(s), TRUE)

csv_reader(text) == reader_run(reader_reset(<<>>), text, FALSE)

(***************************************************************************)
(* Codecs.  "utf-8-sig" is UTF-8 with a byte-order mark; "cp932" is        *)
(* modelled on the characters the model uses: ASCII, half-width katakana   *)
(* (one byte, A1..DF) and hiragana (two bytes, lead 82).                   *)
(***************************************************************************)
UTF8SIG == "utf-8-sig"
CP932 == "cp932"
Encodings == {UTF8SIG, CP932}

BOM_BYTES == <<239, 187, 191>>

utf8_char(cp) ==
    IF cp < 128 THEN <<cp>>
    ELSE IF cp < 2048 THEN <<192 + (cp \div 64), 128 + (cp % 64)>>
    ELSE IF cp < 65536
         THEN <<224 + (cp \div 4096), 128 + ((cp \div 64) % 64), 128 + (cp % 64)>>
    ELSE <<240 + (cp \div 262144), 128 + ((cp \div 4096) % 64),
           128 + ((cp \div 64) % 64), 128 + (cp % 64)>>

RECURSIVE utf8_encode(_)
utf8_encode(s) ==
    IF s = <<>> THEN <<>> ELSE utf8_char(Head(s)) \o utf8_encode(Tail(s))

cp932_encodable(cp) ==
    cp < 128 \/ cp \in 65377 .. 65439 \/ cp \in 12353 .. 12435

cp932_char(cp) ==
    IF cp < 128 THEN <<cp>>
    ELSE IF cp \in 65377 .. 65439 THEN <<cp - 65216>>
    ELSE <<130, 159 + (cp - 12353)>>

RECURSIVE cp932_encode(_)
cp932_encode(s) ==
    IF s = <<>> THEN <<>> ELSE cp932_char(Head(s)) \o cp932_encode(Tail(s))

\* str.encode: ok = FALSE stands for UnicodeEncodeError
encode(s, encoding) ==
    IF encoding = UTF8SIG THEN [ok |-> TRUE, bytes |-> BOM_BYTES \o utf8_encode(s)]
    ELSE IF \A i \in 1 .. Len(s) : cp932_encodable(s[i])
         THEN [ok |-> TRUE, bytes |-> cp932_encode(s)]
    ELSE [ok |-> FALSE, bytes |-> <<>>]

IsCont(b) == b \in 128 .. 191

\* number of continuation bytes a lead byte asks for (0 - 1: invalid lead)
utf8_need(b) ==
    IF b < 128 THEN 0
    ELSE IF b \in 194 .. 223 THEN 1
    ELSE IF b \in 224 .. 239 THEN 2
    ELSE IF b \in 240 .. 244 THEN 3
    ELSE 0 - 1

\* the range the second byte must lie in (excludes overlong forms,
\* surrogates and code points above 10FFFF)
utf8_second(b) ==
    IF b = 224 THEN 160 .. 191
    ELSE IF b = 237 THEN 128 .. 159
    ELSE IF b = 240 THEN 144 .. 191
    ELSE IF b = 244 THEN 128 .. 143
    ELSE 128 .. 191

\* how many of the bytes after the lead are acceptable continuations
RECURSIVE utf8_valid_cont(_, _, _)
utf8_valid_cont(bs, k, need) ==
    IF k > need \/ Len(bs) < 1 + k THEN k - 1
    ELSE IF (k = 1 /\ bs[2] \in utf8_second(bs[1])) \/ (k > 1 /\ IsCont(bs[1 + k]))
         THEN utf8_valid_cont(bs, k + 1, need)
    ELSE k - 1

utf8_value(bs, need) ==
    IF need = 0 THEN bs[1]
    ELSE IF need = 1 THEN (bs[1] - 192) * 64 + (bs[2] - 128)
    ELSE IF need = 2
         THEN (bs[1] - 224) * 4096 + (bs[2] - 128) * 64 + (bs[3] - 128)
    ELSE (bs[1] - 240) * 262144 + (bs[2] - 128) * 4096
         + (bs[3] - 128) * 64 + (bs[4] - 128)

\* decode UTF-8; with replace = FALSE an invalid sequence fails the whole
\* decode (UnicodeDecodeError), with replace = TRUE it becomes U+FFFD
RECURSIVE utf8_decode(_, _)
utf8_decode(bs, replace) ==
    IF bs = <<>> THEN [ok |-> TRUE, text |-> <<>>]
    ELSE LET need == utf8_need(bs[1])
             got == IF need < 0 THEN 0 ELSE utf8_valid_cont(bs, 1, need)
         IN  IF need >= 0 /\ got = need
             THEN LET rest == utf8_decode(SubSeq(bs, need + 2, Len(bs)), replace)
                  IN  [ok |-> rest.ok,
                       text |-> <<utf8_value(bs, need)>> \o rest.text]
             ELSE IF replace
                  THEN LET rest == utf8_decode(SubSeq(bs, got + 2, Len(bs)), replace)
                       IN  [ok |-> rest.ok, text |-> <<REPLACEMENT>> \o rest.text]
             ELSE [ok |-> FALSE, text |-> <<>>]

utf8sig_decode(bs, replace) ==
    IF Len(bs) >= 3 /\ SubSeq(bs, 1, 3) = BOM_BYTES
    THEN utf8_decode(SubSeq(bs, 4, Len(bs)), replace)
    ELSE utf8_decode(bs, replace)

RECURSIVE cp932_decode(_)
cp932_decode(bs) ==
    IF bs = <<>> THEN [ok |-> TRUE, text |-> <<>>]
    ELSE IF bs[1] < 128 \/ bs[1] \in 161 .. 223
         THEN LET rest == cp932_decode(Tail(bs))
                  cp == IF bs[1] < 128 THEN bs[1] ELSE bs[1] + 65216
              IN  [ok |-> rest.ok, text |-> <<cp>> \o rest.text]
    ELSE IF bs[1] = 130 /\ Len(bs) >= 2 /\ bs[2] \in 159 .. 241
         THEN LET rest == cp932_decode(SubSeq(bs, 3, Len(bs)))
              IN  [ok |-> rest.ok, text |-> <<12353 + (bs[2] - 159)>> \o rest.text]
    ELSE [ok |-> FALSE, text |-> <<>>]

decode(bs, encoding) ==
    IF encoding = UTF8SIG THEN utf8sig_decode(bs, FALSE) ELSE cp932_decode(bs)

(***************************************************************************)
(* The window.  A window state st is a record of the fields below; the     *)
(* handlers are functions from window states to window states, so that a   *)
(* signal raised inside a handler runs the connected slot in place.        *)
(*   log: what the running handler has done so far, in order               *)
(*        (ensure_trailing_empty runs and save_csv runs)                   *)
(***************************************************************************)
VARIABLES table, currentRow, clipboard, csv_encoding, file, suspend_events,
          log, lastOp, outcome, orig, first, pc

vars == <<table, currentRow, clipboard, csv_encoding, file, suspend_events,
          log, lastOp, outcome, orig, first, pc>>

window ==
    [table |-> table, currentRow |-> currentRow, clipboard |-> clipboard,
     csv_encoding |-> csv_encoding, file |-> file,
     suspend_events |-> suspend_events, log |-> <<>>]

NoFile == [exists |-> FALSE, bytes |-> <<>>]
FileOf(bytes) == [exists |-> TRUE, bytes |-> bytes]

rowCount(st) == Len(st.table)

\* item = self.table.item(row, col); return item.text() if item else ""
get_text(st, row, col) ==
    IF row >= 0 /\ row < rowCount(st) THEN st.table[row + 1][col + 1] ELSE <<>>

\* variant: blank only when both texts are empty, without trimming
row_is_empty_untrimmed(st, row) ==
    IF row < 0 \/ row >= rowCount(st) THEN TRUE
    ELSE get_text(st, row, 0) = <<>> /\ get_text(st, row, 1) = <<>>

row_is_empty(st, row) ==
    IF row < 0 \/ row >= rowCount(st) THEN TRUE
    ELSE strip(get_text(st, row, 0)) = <<>> /\ strip(get_text(st, row, 1)) = <<>>

get_selected_row(st) == IF st.currentRow >= 0 THEN st.currentRow ELSE 0 - 1

\* variant: copies the first field even when it is empty
copy_selected_text_always(st) ==
    LET row == get_selected_row(st)
    IN  IF row < 0 THEN st
        ELSE [st EXCEPT !.clipboard = get_text(st, row, 0)]

copy_selected_text(st) ==
    LET row == get_selected_row(st)
        text == get_text(st, row, 0)
    IN  IF row < 0 THEN st
        ELSE IF text # <<>> THEN [st EXCEPT !.clipboard = text]
        ELSE st

on_selection_changed(st) == copy_selected_text(st)

on_cell_clicked(st, row, col) == copy_selected_text(st)

\* variant: trailing blank rows are written too
collect_rows_unstripped(st) == st.table

collect_rows_for_save(st) == pop_trailing_empty(st.table)

\* variant: the second write is in utf-8-sig but the remembered encoding
\* is left as it was
save_csv_keep_encoding(st) ==
    LET rows == collect_rows_for_save(st)
        text == csv_writerows(rows)
        e1 == encode(text, st.csv_encoding)
    IN  [st EXCEPT !.file = FileOf(IF e1.ok THEN e1.bytes
                                   ELSE encode(text, UTF8SIG).bytes),
                   !.log = Append(@, [op |-> "save_csv", rows |-> rows,
                                      attempts |-> IF e1.ok THEN 1 ELSE 2])]

\* open(path, "w", encoding=...) and writerows; a UnicodeEncodeError
\* switches to utf-8-sig and writes again
save_csv(st) ==
    LET rows == collect_rows_for_save(st)
        text == csv_writerows(rows)
        e1 == encode(text, st.csv_encoding)
    IN  IF e1.ok
        THEN [st EXCEPT !.file = FileOf(e1.bytes),
                        !.log = Append(@, [op |-> "save_csv", rows |-> rows,
                                           attempts |-> 1])]
        ELSE [st EXCEPT !.csv_encoding = UTF8SIG,
                        !.file = FileOf(encode(text, UTF8SIG).bytes),
                        !.log = Append(@, [op |-> "save_csv", rows |-> rows,
                                           attempts |-> 2])]

RECURSIVE on_value_changed(_)
RECURSIVE ensure_trailing_empty(_)

\* the table emits itemChanged, which is connected to on_value_changed
itemChanged(st) == on_value_changed(st)

\* _set_text on a cell that has an item
set_text(st, row, col, text) ==
    IF get_text(st, row, col) # text
    THEN itemChanged([st EXCEPT !.table[row + 1][col + 1] = text])
    ELSE st

\* _set_text on a cell of a freshly inserted row: setItem, then setText
set_new_text(st, row, col, text) == set_text(itemChanged(st), row, col, text)

set_row_values(st, row, values) ==
    set_text(set_text(st, row, 0, values[1]), row, 1, values[2])

append_row(st, col0, col1) ==
    LET row == rowCount(st)
        st1 == [st EXCEPT !.table = Append(@, <<<<>>, <<>>>>)]
    IN  set_new_text(set_new_text(st1, row, 0, col0), row, 1, col1)

\* self.table.removeRow(row) for the last row: when the current row is the
\* one removed, the view makes the row above it current, and the selection
\* change runs on_selection_changed
removeRow(st, row) ==
    LET st1 == IF st.currentRow = row
               THEN on_selection_changed([st EXCEPT !.currentRow = row - 1])
               ELSE st
    IN  [st1 EXCEPT !.table = SubSeq(@, 1, row)]

\* variant: "if" in place of "while", at most one row is removed
collapse_once(st) ==
    LET count == rowCount(st)
    IN  IF count > 1 /\ row_is_empty(st, count - 1) /\ row_is_empty(st, count - 2)
        THEN removeRow(st, count - 1)
        ELSE st

RECURSIVE collapse_trailing_empty(_)
collapse_trailing_empty(st) ==
    LET count == rowCount(st)
    IN  IF count > 1 /\ row_is_empty(st, count - 1) /\ row_is_empty(st, count - 2)
        THEN collapse_trailing_empty(removeRow(st, count - 1))
        ELSE st

\* variant: appends the blank row when needed but never removes one
ensure_trailing_empty_append_only(st) ==
    LET count == rowCount(st)
        st1 == [st EXCEPT !.suspend_events = TRUE,
                          !.log = Append(@, [op |-> "ensure_trailing_empty",
                                             rows |-> <<>>, attempts |-> 0])]
        st3 == IF count = 0 \/ ~row_is_empty(st1, count - 1)
               THEN append_row(st1, <<>>, <<>>)
               ELSE st1
    IN  [st3 EXCEPT !.suspend_events = st.suspend_events]

ensure_trailing_empty(st) ==
    LET previous_suspend == st.suspend_events
        st1 == [st EXCEPT !.suspend_events = TRUE,
                          !.log = Append(@, [op |-> "ensure_trailing_empty",
                                             rows |-> <<>>, attempts |-> 0])]
        st2 == collapse_trailing_empty(st1)
        count == rowCount(st2)
        st3 == IF count = 0 \/ ~row_is_empty(st2, count - 1)
               THEN append_row(st2, <<>>, <<>>)
               ELSE st2
    IN  [st3 EXCEPT !.suspend_events = previous_suspend]

on_value_changed(st) ==
    IF st.suspend_events THEN st
    ELSE save_csv(ensure_trailing_empty(st))

\* variant: row_a's values are read after row_a was overwritten
swap_rows_overwrite(st, row_a, row_b) ==
    LET values_b == <<get_text(st, row_b, 0), get_text(st, row_b, 1)>>
        st1 == [st EXCEPT !.suspend_events = TRUE]
        st2 == set_row_values(st1, row_a, values_b)
        values_a == <<get_text(st2, row_a, 0), get_text(st2, row_a, 1)>>
    IN  [set_row_values(st2, row_b, values_a) EXCEPT !.suspend_events = FALSE]

\* variant: the change events are not suspended while the rows are written
swap_rows_unsuspended(st, row_a, row_b) ==
    LET values_a == <<get_text(st, row_a, 0), get_text(st, row_a, 1)>>
        values_b == <<get_text(st, row_b, 0), get_text(st, row_b, 1)>>
    IN  set_row_values(set_row_values(st, row_a, values_b), row_b, values_a)

swap_rows(st, row_a, row_b) ==
    LET values_a == <<get_text(st, row_a, 0), get_text(st, row_a, 1)>>
        values_b == <<get_text(st, row_b, 0), get_text(st, row_b, 1)>>
        st1 == [st EXCEPT !.suspend_events = TRUE]
        st2 == set_row_values(set_row_values(st1, row_a, values_b), row_b, values_a)
    IN  [st2 EXCEPT !.suspend_events = FALSE]

\* setCurrentCell(row, 0); selectRow(row): the selection change runs
\* on_selection_changed
select_row(st, row) ==
    IF row < 0 \/ row >= rowCount(st) THEN st
    ELSE IF st.currentRow = row THEN st
    ELSE on_selection_changed([st EXCEPT !.currentRow = row])

move_up_rejected(st) ==
    LET row == get_selected_row(st)
    IN  row <= 0 \/ row_is_empty(st, row)

on_move_up(st) ==
    LET row == get_selected_row(st)
    IN  IF move_up_rejected(st) THEN st
        ELSE save_csv(ensure_trailing_empty(
                 select_row(swap_rows(st, row, row - 1), row - 1)))

\* variant: without the check against the trailing blank row
move_down_rejected_unguarded(st) ==
    LET row == get_selected_row(st)
        count == rowCount(st)
    IN  \/ row < 0 \/ row >= count - 1
        \/ row_is_empty(st, row)

move_down_rejected(st) ==
    LET row == get_selected_row(st)
        count == rowCount(st)
    IN  \/ row < 0 \/ row >= count - 1
        \/ row_is_empty(st, row)
        \/ (count >= 1 /\ row_is_empty(st, count - 1) /\ row >= count - 2)

on_move_down(st) ==
    LET row == get_selected_row(st)
    IN  IF move_down_rejected(st) THEN st
        ELSE save_csv(ensure_trailing_empty(
                 select_row(swap_rows(st, row, row + 1), row + 1)))

\* for encoding in ("utf-8-sig", "cp932"): ... ; then errors="replace"
read_csv_with_fallback(bytes) ==
    LET d1 == decode(bytes, UTF8SIG)
        d2 == decode(bytes, CP932)
    IN  IF d1.ok THEN [rows |-> csv_reader(d1.text), encoding |-> UTF8SIG]
        ELSE IF d2.ok THEN [rows |-> csv_reader(d2.text), encoding |-> CP932]
        ELSE [rows |-> csv_reader(utf8sig_decode(bytes, TRUE).text),
              encoding |-> UTF8SIG]

\* row_values = (row_values + ["", ""])[:2]
two_values(row_values) == SubSeq(row_values \o <<<<>>, <<>>>>, 1, 2)

RECURSIVE append_rows(_, _)
append_rows(st, rows) ==
    IF rows = <<>> THEN st
    ELSE append_rows(append_row(st, two_values(Head(rows))[1],
                                two_values(Head(rows))[2]), Tail(rows))

load_csv(st) ==
    LET st1 == [st EXCEPT !.suspend_events = TRUE, !.table = <<>>]
        r == read_csv_with_fallback(st.file.bytes)
        st2 == IF st.file.exists THEN [st1 EXCEPT !.csv_encoding = r.encoding]
               ELSE st1
        rows == pop_trailing_empty(IF st.file.exists THEN r.rows ELSE <<>>)
    IN  [append_rows(st2, rows) EXCEPT !.suspend_events = FALSE]

\* CopyListWindow.__init__ with the file and the clipboard it finds
construct(f, clip) ==
    ensure_trailing_empty(load_csv(
        [table |-> <<>>, currentRow |-> 0 - 1, clipboard |-> clip,
         csv_encoding |-> UTF8SIG, file |-> f, suspend_events |-> FALSE,
         log |-> <<>>]))

(***************************************************************************)
(* The running program: the user edits cells, presses the two buttons,     *)
(* changes the selection and clicks cells.                                 *)
(***************************************************************************)
MaxRows == 3

Col0Texts == {<<>>, <<SP>>, <<CH_a>>}
Col1Texts == {<<>>, <<CH_x>>}
ColTexts(col) == IF col = 0 THEN Col0Texts ELSE Col1Texts

\* "a,x\n,x\n,\n,\n" in UTF-8 with a byte-order mark: two records and two
\* trailing blank records
TrailingBlanksFile ==
    FileOf(encode(<<CH_a, COMMA, CH_x, LF, COMMA, CH_x, LF,
                    COMMA, LF, COMMA, LF>>, UTF8SIG).bytes)

\* "\r\na\r\n": a blank line, then a record of one field
GappedFile == FileOf(encode(<<CR, LF, CH_a, CR, LF>>, UTF8SIG).bytes)

InitFiles == {NoFile, TrailingBlanksFile, GappedFile}
InitClipboards == {<<>>}

Apply(st, op, oc) ==
    /\ table' = st.table
    /\ currentRow' = st.currentRow
    /\ clipboard' = st.clipboard
    /\ csv_encoding' = st.csv_encoding
    /\ file' = st.file
    /\ suspend_events' = st.suspend_events
    /\ log' = st.log
    /\ lastOp' = op
    /\ outcome' = oc
    /\ UNCHANGED <<orig, first, pc>>

Startup(files, clips) ==
    \E f \in files, clip \in clips :
        LET st == construct(f, clip)
        IN  /\ table = st.table
            /\ currentRow = st.currentRow
            /\ clipboard = st.clipboard
            /\ csv_encoding = st.csv_encoding
            /\ file = st.file
            /\ suspend_events = st.suspend_events
            /\ log = st.log
            /\ lastOp = "startup"
            /\ outcome = "done"
            /\ orig = <<>>
            /\ first = <<>>
            /\ pc = 0

Init == Startup(InitFiles, InitClipboards)

\* the user commits an edit of cell (row, col): the item's text changes and
\* the table emits itemChanged
EditCell(row, col, text, maxRows) ==
    /\ get_text(window, row, col) # text
    /\ LET st == itemChanged([window EXCEPT !.table[row + 1][col + 1] = text])
       IN  /\ rowCount(st) <= maxRows
           /\ Apply(st, "edit", "done")

Edit ==
    \E row \in 0 .. Len(table) - 1, col \in {0, 1} :
        \E text \in ColTexts(col) : EditCell(row, col, text, MaxRows)

MoveUp ==
    /\ currentRow \in (0 - 1) .. Len(table) - 1
    /\ Apply(on_move_up(window), "move_up",
             IF move_up_rejected(window) THEN "rejected" ELSE "moved")

MoveDown ==
    /\ currentRow \in (0 - 1) .. Len(table) - 1
    /\ Apply(on_move_down(window), "move_down",
             IF move_down_rejected(window) THEN "rejected" ELSE "moved")

\* the selection changes, leaving row as the current row (0 - 1: none)
SelectionChanged ==
    \E row \in (0 - 1) .. Len(table) - 1 :
        Apply(on_selection_changed([window EXCEPT !.currentRow = row]),
              "select", "done")

\* a click on cell (row, col) makes row current, then emits cellClicked
CellClicked ==
    \E row \in 0 .. Len(table) - 1, col \in {0, 1} :
        LET st1 == IF currentRow = row THEN window
                   ELSE on_selection_changed([window EXCEPT !.currentRow = row])
        IN  Apply(on_cell_clicked(st1, row, col), "click", "done")

Next == Edit \/ MoveUp \/ MoveDown \/ SelectionChanged \/ CellClicked

Spec == Init /\ [][Next]_vars

(***************************************************************************)
(* The program with a legacy-encoded file: the same handlers over texts    *)
(* that the two encodings treat differently, and the program closed and    *)
(* started again on the file it wrote.                                     *)
(***************************************************************************)
MaxRowsEnc == 3

EncTexts == {<<>>, <<HW_TE>>, <<HW_TE, HW_SMALL_U>>, <<E_ACUTE>>}

\* one record whose first field is the half-width katakana TE, in cp932
LegacyFile == FileOf(encode(<<HW_TE, COMMA, CR, LF>>, CP932).bytes)

\* a lone lead byte: neither UTF-8 nor cp932
UndecodableFile == FileOf(<<130>>)

EncInitFiles == {NoFile, LegacyFile, UndecodableFile}

InitEnc == Startup(EncInitFiles, InitClipboards)

EditEnc ==
    \E row \in 0 .. Len(table) - 1 :
        \E text \in EncTexts : EditCell(row, 0, text, MaxRowsEnc)

\* the window is closed and the program started again
Restart ==
    /\ lastOp # "startup"
    /\ Apply(construct(file, clipboard), "startup", "done")

NextEnc == EditEnc \/ MoveUp \/ MoveDown \/ SelectionChanged \/ Restart

SpecEnc == InitEnc /\ [][NextEnc]_vars

(***************************************************************************)
(* ensure_trailing_empty applied to arbitrary tables                       *)
(***************************************************************************)
MaxLenETE == 3

ETERows == {<<t0, t1>> : t0 \in {<<>>, <<SP>>, <<CH_a>>}, t1 \in {<<>>, <<LF>>, <<CH_x>>}}

ETETables == UNION {[1 .. n -> ETERows] : n \in 0 .. MaxLenETE}

InitETE ==
    /\ table \in ETETables
    /\ currentRow \in (0 - 1) .. Len(table) - 1
    /\ clipboard = <<>>
    /\ csv_encoding = UTF8SIG
    /\ file = NoFile
    /\ suspend_events = FALSE
    /\ log = <<>>
    /\ lastOp = "none"
    /\ outcome = "done"
    /\ orig = table
    /\ first = <<>>
    /\ pc = 0

ApplyEnsure ==
    /\ pc < 2
    /\ LET st == ensure_trailing_empty(window)
       IN  /\ table' = st.table
           /\ currentRow' = st.currentRow
           /\ clipboard' = st.clipboard
           /\ csv_encoding' = st.csv_encoding
           /\ file' = st.file
           /\ suspend_events' = st.suspend_events
           /\ log' = st.log
           /\ first' = IF pc = 0 THEN st.table ELSE first
    /\ lastOp' = "ensure_trailing_empty"
    /\ pc' = pc + 1
    /\ UNCHANGED <<outcome, orig>>

NextETE == ApplyEnsure

SpecETE == InitETE /\ [][NextETE]_vars

(***************************************************************************)
(* Properties                                                              *)
(***************************************************************************)
IsBlankRow(r) == strip(r[1]) = <<>> /\ strip(r[2]) = <<>>

\* the rows from the first up through the last non-blank one
LastNonBlank(t) ==
    LET S == {i \in 1 .. Len(t) : ~IsBlankRow(t[i])}
    IN  IF S = {} THEN 0 ELSE CHOOSE i \in S : \A j \in S : j <= i

VisibleRows(t) == SubSeq(t, 1, LastNonBlank(t))

\* the last handler ended with a save of the table
Saved == lastOp = "edit" \/ outcome = "moved"

\* C1: between handlers the table is non-empty, its last row is blank and
\* the row before it, if any, is not blank
TrailingBlankInvariant ==
    /\ Len(table) >= 1
    /\ IsBlankRow(table[Len(table)])
    /\ Len(table) >= 2 => ~IsBlankRow(table[Len(table) - 1])

\* an edit left only white space in the one non-blank row: the two blank
\* rows that resulted were collapsed to one
C1_Witness ==
    /\ lastOp = "edit"
    /\ Len(table) = 1
    /\ table[1][1] = <<SP>>

MoveUpNoOpCase ==
    \/ currentRow < 0
    \/ currentRow = 0
    \/ IsBlankRow(table[currentRow + 1])

MoveDownNoOpCase ==
    \/ currentRow < 0
    \/ currentRow = Len(table) - 1
    \/ IsBlankRow(table[currentRow + 1])
    \/ currentRow >= Len(table) - 2

\* C2: a move_up or move_down that is rejected changes nothing and does
\* not save
RejectedMovesAreNoOps ==
    [][((lastOp' = "move_up" /\ MoveUpNoOpCase)
         \/ (lastOp' = "move_down" /\ MoveDownNoOpCase))
        => /\ UNCHANGED <<table, currentRow, clipboard, csv_encoding, file>>
           /\ log' = <<>>]_vars

\* move_down was pressed on the last non-blank row, right above the
\* trailing blank row, and was rejected
C2_Witness ==
    /\ lastOp = "move_down"
    /\ outcome = "rejected"
    /\ Len(table) = 3
    /\ currentRow = 1
    /\ ~IsBlankRow(table[2])
    /\ log = <<>>

\* C3: a successful move exchanges the values of the selected row and its
\* neighbour and selects the neighbour's position
SuccessfulMoveExchanges ==
    [][/\ (lastOp' = "move_up" /\ ~MoveUpNoOpCase)
          => /\ table'[currentRow] = table[currentRow + 1]
             /\ table'[currentRow + 1] = table[currentRow]
             /\ currentRow' = currentRow - 1
       /\ (lastOp' = "move_down" /\ ~MoveDownNoOpCase)
          => /\ table'[currentRow + 2] = table[currentRow + 1]
             /\ table'[currentRow + 1] = table[currentRow + 2]
             /\ currentRow' = currentRow + 1]_vars

\* [(a,x),("",x),("","")] after move_down on row 0
C3_Witness ==
    /\ lastOp = "move_down"
    /\ outcome = "moved"
    /\ table = << <<<<>>, <<CH_x>>>>, <<<<CH_a>>, <<CH_x>>>>, <<<<>>, <<>>>> >>
    /\ currentRow = 1

\* C4: saving the table and loading the file gives the visible rows of the
\* table, and saving and loading again gives the same rows
RoundTrip ==
    LET s1 == load_csv(save_csv(window))
        s2 == load_csv(save_csv(s1))
    IN  /\ s1.table = VisibleRows(table)
        /\ s2.table = s1.table

\* C5: after an edit or a successful move the file holds the rows up
\* through the last non-blank row, in order, and no trailing blank record
FileHoldsVisibleRows ==
    Saved =>
        /\ file.exists
        /\ decode(file.bytes, csv_encoding).ok
        /\ LET recs == csv_reader(decode(file.bytes, csv_encoding).text)
           IN  /\ recs = VisibleRows(table)
               /\ recs # <<>> => ~IsBlankRow(recs[Len(recs)])

\* an edit blanked every row: zero records are written
C5_Witness ==
    /\ lastOp = "edit"
    /\ file = FileOf(BOM_BYTES)
    /\ table[1][1] = <<SP>>

\* C6: a second ensure_trailing_empty leaves the table as the first left it
EnsureIdempotent == pc = 2 => table = first

\* two applications to a table that ended in several blank rows
C6_Witness ==
    /\ pc = 2
    /\ Len(orig) = 3
    /\ Len(first) = 1

\* C7: a selection change or a click copies the first field of the current
\* row when it is non-empty and leaves the clipboard alone otherwise; the
\* clipboard is never set to the empty text
ClipboardCopy ==
    [][/\ lastOp' \in {"select", "click"}
          => IF currentRow' >= 0 /\ table[currentRow' + 1][1] # <<>>
             THEN clipboard' = table[currentRow' + 1][1]
             ELSE clipboard' = clipboard
       /\ clipboard' # clipboard => clipboard' # <<>>]_vars

\* a row with an empty first field was clicked and the clipboard kept the
\* text copied before
C7_Witness ==
    /\ lastOp = "click"
    /\ currentRow >= 0
    /\ table[currentRow + 1][1] = <<>>
    /\ clipboard = <<CH_a>>

Cp932Encodable(t) ==
    \A i \in 1 .. Len(t) : \A k \in 1 .. 2 : \A j \in 1 .. Len(t[i][k]) :
        cp932_encodable(t[i][k][j])

\* C8: the remembered encoding is one of the two; a save that cannot
\* encode switches it to utf-8-sig, writes a second time and the file holds
\* the rows; nothing else changes it after startup
EncodingFallback ==
    [][/\ csv_encoding' \in Encodings
       /\ lastOp' # "startup" =>
            /\ csv_encoding = UTF8SIG => csv_encoding' = UTF8SIG
            /\ (Saved' /\ csv_encoding = CP932 /\ ~Cp932Encodable(VisibleRows(table')))
               => /\ csv_encoding' = UTF8SIG
                  /\ log'[Len(log')].attempts = 2
                  /\ csv_reader(utf8sig_decode(file'.bytes, FALSE).text)
                         = VisibleRows(table')
            /\ ~(Saved' /\ ~Cp932Encodable(VisibleRows(table')))
               => csv_encoding' = csv_encoding]_vars

\* an edit typed a character cp932 cannot encode while cp932 was remembered
C8_Witness ==
    /\ lastOp = "edit"
    /\ csv_encoding = UTF8SIG
    /\ Len(log) = 2
    /\ log[2].attempts = 2
    /\ \E i \in 1 .. Len(table) : table[i][1] = <<E_ACUTE>>

MoveUpCollapses ==
    /\ currentRow = Len(table) - 2
    /\ IsBlankRow(table[currentRow])

\* C9 as stated: a successful move keeps the number of rows and every row
\* other than the two exchanged
MoveKeepsOtherRows ==
    [][((lastOp' = "move_up" /\ ~MoveUpNoOpCase)
         \/ (lastOp' = "move_down" /\ ~MoveDownNoOpCase))
        => /\ Len(table') = Len(table)
           /\ \A i \in 1 .. Len(table) :
                (i - 1 \notin {currentRow, currentRow'}) => table'[i] = table[i]]_vars

\* C9 amended: the rows other than the two exchanged that remain keep their
\* values; the number of rows is kept, except that a move_up of the last
\* non-blank row over a blank row removes the last row
MoveKeepsOtherRowsAmended ==
    [][/\ (lastOp' = "move_up" /\ ~MoveUpNoOpCase)
          => /\ Len(table') = IF MoveUpCollapses THEN Len(table) - 1 ELSE Len(table)
             /\ \A i \in 1 .. Len(table') :
                  (i - 1 \notin {currentRow, currentRow'}) => table'[i] = table[i]
       /\ (lastOp' = "move_down" /\ ~MoveDownNoOpCase)
          => /\ Len(table') = Len(table)
             /\ \A i \in 1 .. Len(table') :
                  (i - 1 \notin {currentRow, currentRow'}) => table'[i] = table[i]]_vars

\* move_up of the last non-blank row over an interior blank row: the table
\* is one row shorter and the moved row is first
C9_Witness ==
    /\ lastOp = "move_up"
    /\ outcome = "moved"
    /\ Len(table) = 2
    /\ currentRow = 0
    /\ ~IsBlankRow(table[1])

\* C10: the flag is clear between handlers; an edit and a successful move
\* each run ensure_trailing_empty once and then save once, the rows saved
\* being those of the final table; startup runs ensure_trailing_empty once
\* and does not save; rejected moves, selections and clicks do neither
EditPropagation ==
    /\ suspend_events = FALSE
    /\ Saved =>
         /\ Len(log) = 2
         /\ log[1].op = "ensure_trailing_empty"
         /\ log[2].op = "save_csv"
         /\ log[2].rows = VisibleRows(table)
    /\ lastOp = "startup" =>
         /\ Len(log) = 1
         /\ log[1].op = "ensure_trailing_empty"
    /\ (~Saved /\ lastOp # "startup") => log = <<>>

\* a successful move_up of two different rows, saved once
C10_Witness ==
    /\ lastOp = "move_up"
    /\ outcome = "moved"
    /\ Len(table) = 3
    /\ table[1] # table[2]
    /\ Len(log) = 2

====
